---- MODULE Spec2Model ----
(***************************************************************************)
(* Model of the mod discovery and hot-reload loader of FuseCore            *)
(* (src/ba_data/python/fusecore/_modloader.py): ModEntry, its load path,   *)
(* and ModLoaderSubsystem with its background scan thread and foreground   *)
(* load timer.                                                             *)
(*                                                                         *)
(* The file system below the mods directory is part of the state.  A path  *)
(* is a tuple of names relative to MODS_DIRECTORY: <<"a">> is the          *)
(* directory mods/a, <<"a", "main.py">> the entry file inside it.  A path  *)
(* outside the mods directory starts with "..".                            *)
(***************************************************************************)
EXTENDS Integers, Sequences, FiniteSets, TLC

\* Number of changes the user makes below the mods directory while the
\* loader exists; each change advances the clock that stamps st_mtime_ns.
MaxChanges == 1

\* Longest _scan_paths list after which no further scan_for_mods(path) call
\* is made from outside, and longest dirs_to_scan list after which no further
\* root is registered.
MaxPaths == 3
MaxRoots == 2
\* Number of things (package directories, stray script, directory without a
\* manifest, path outside the mods directory) present when the loader driven
\* through its public interface is constructed.
MaxItems == 2
MaxListed == 3

\* ModEntry._last_time before the first load.
NoTime == -9999

DirNames == {"a", "b"}
ManifestIds == {"foo", "bar"}
\* A stray script at the top of the mods directory, a directory without a
\* manifest that may hold a package in a subdirectory, and a path outside the
\* mods directory with a script in it when it is a directory.
ScriptName == "s.py"
BoxName == "c"
BoxPkgName == "m"
\* A package inside that directory whose own directory is named like the
\* package directory mods/a.
TwinName == "a"
ExtRoot == <<"..", "x">>
ExtScriptName == "t.py"

VALID_MANIFESTS == {"mod.json"}

\* What a package directory's mod.json holds: a file json.loads rejects
\* ("bad") or a document with the given "id".  The two directories are given
\* different choices so that they can hold the same id, different ids, or
\* no usable manifest.
ManifestStates(d) == IF d = "a" THEN {"bad", "foo"} ELSE {"foo", "bar"}
\* What <dir>/main.py (the manifest's assets.main) is on disk.
MainStates == {"missing", "file", "dir"}
\* The manifest's assets.meshes directory at a load: absent, copied, or
\* migrate_files raising OSError (os.makedirs, shutil.copy).
Migrations == {"none", "copied", "oserror"}

ModType == {"PLUGIN", "DIRECTORY", "PACKED", "COMPRESSED"}
ModStatus == {"NEW", "ACTIVE", "OFFLINE"}

VARIABLES
    fs,                \* package directories below the mods directory
    tree,              \* the rest of the file system: the mods directory itself,
                       \* what else it holds, and the path outside it
    clock,             \* file system clock (source of st_mtime_ns)
    dirs_to_scan,      \* ModLoaderSubsystem.dirs_to_scan
    aliased,           \* _last_scan_paths and _scan_paths are one list object
    mod_entries,       \* ModLoaderSubsystem._mod_entries: id -> ModEntry
    order,             \* insertion order of _mod_entries (dict iteration order)
    scan_paths,        \* ModLoaderSubsystem._scan_paths
    last_scan_paths,   \* ModLoaderSubsystem._last_scan_paths
    scan_finished,     \* ModLoaderSubsystem._scan_finished (guarded by _lock)
    modules,           \* sys.modules entries created by mods
    phase,             \* "constructed", "starting" (inside on_app_running), "running"
    fg,                \* the main context's position inside _read_mod_entries
    bg,                \* the scan thread's position inside scan_for_mods
    last,              \* the ModEntry.load call made by the step into this state
    ended,             \* the end of _read_mod_entries reached by that step
    obs,               \* per id: what its previous load call saw and did
    notified,          \* per id: number of _announce_mod_loaded calls
    api,               \* the scan or registration call made by the step into this state
    produced,          \* the path list the last completed scan_for_mods() built
    mig,               \* a call of migrate_files: its arguments, the directories
                       \* it works on, and what it did
    walk,              \* per context: its position inside a scan_for_mods() call
                       \* that is followed statement by statement
    host               \* the host process: which modules of the package have
                       \* run and the ModLoaderSubsystem objects registered

vars == <<fs, tree, clock, dirs_to_scan, aliased, mod_entries, order,
          scan_paths, last_scan_paths, scan_finished, modules, phase, fg, bg,
          last, ended, obs, notified, api, produced, mig, walk, host>>

fsVars == <<fs, tree, clock>>
loaderVars == <<mod_entries, order, scan_paths, last_scan_paths, scan_finished,
                modules, dirs_to_scan, aliased>>
histVars == <<obs, notified, produced, mig, walk, host>>
scanHistVars == <<obs, notified, mig, walk, host>>

Range(s) == {s[i] : i \in 1..Len(s)}

Max2(x, y) == IF x >= y THEN x ELSE y

-----------------------------------------------------------------------------
(* File system *)

NoDir == [exists |-> FALSE, manifest |-> "none", main |-> "missing",
          tman |-> 0, tmain |-> 0]

\* The path lies in one of the package directories described by fs.
InPkgDir(p) == p # <<>> /\ p[1] \in DirNames

\* What tree says a path outside the package directories is.
TreeKind(p) ==
    IF p = <<>> THEN IF tree.root THEN "dir" ELSE "none"
    ELSE IF p = <<ScriptName>> THEN IF tree.script THEN "file" ELSE "none"
    ELSE IF p = <<BoxName>> THEN IF tree.box # "none" THEN "dir" ELSE "none"
    ELSE IF p = <<BoxName, BoxPkgName>>
    THEN IF tree.box = "pkg" THEN "dir" ELSE "none"
    ELSE IF p = <<BoxName, BoxPkgName, "mod.json">>
    THEN IF tree.box = "pkg" THEN "file" ELSE "none"
    ELSE IF p = <<BoxName, TwinName>>
    THEN IF tree.box = "twin" THEN "dir" ELSE "none"
    ELSE IF p \in {<<BoxName, TwinName, "mod.json">>,
                   <<BoxName, TwinName, "main.py">>}
    THEN IF tree.box = "twin" THEN "file" ELSE "none"
    ELSE IF p = ExtRoot THEN tree.ext
    ELSE IF p = ExtRoot \o <<ExtScriptName>>
    THEN IF tree.ext = "dir" THEN "file" ELSE "none"
    ELSE "none"

\* Path.exists()
Exists(p) ==
    IF ~InPkgDir(p) THEN TreeKind(p) # "none"
    ELSE IF Len(p) = 1
    THEN p[1] \in DirNames /\ fs[p[1]].exists
    ELSE /\ p[1] \in DirNames
         /\ fs[p[1]].exists
         /\ IF Len(p) = 2
            THEN \/ p[2] = "mod.json" /\ fs[p[1]].manifest # "none"
                 \/ p[2] = "main.py" /\ fs[p[1]].main # "missing"
            ELSE FALSE

\* Path.is_dir()
IsDir(p) ==
    IF ~InPkgDir(p) THEN TreeKind(p) = "dir"
    ELSE /\ Exists(p)
         /\ \/ Len(p) = 1 /\ p[1] \in DirNames
            \/ Len(p) = 2 /\ p[2] = "main.py" /\ fs[p[1]].main = "dir"

\* Path.is_file()
IsFile(p) == Exists(p) /\ ~IsDir(p)

\* Path.name and Path.suffix
PathName(p) == p[Len(p)]

\* A suffix that is never ".py".
Suffix_NoScript(p) == IF PathName(p) = "mod.json" THEN ".json" ELSE ""

Suffix(p) ==
    LET n == PathName(p)
    IN  IF n \in {"main.py", ScriptName, ExtScriptName} THEN ".py"
        ELSE IF n \in {"a.ogg", "dir.ogg"} THEN ".ogg"
        ELSE IF n \in {"a.dds", "d.dds"} THEN ".dds"
        ELSE IF n = "b.png" THEN ".png"
        ELSE IF n = "c.ktx" THEN ".ktx"
        ELSE IF n = "b.txt" THEN ".txt"
        ELSE IF n = "mod.json" THEN ".json"
        ELSE ""

\* st_mtime_ns of a regular file; the files outside the package directories
\* are never written after the loader is constructed.
MTime(p) ==
    IF ~InPkgDir(p) THEN 1
    ELSE IF p[2] = "mod.json" THEN fs[p[1]].tman ELSE fs[p[1]].tmain

\* sorted(os.listdir(p)) as full paths; the names sort as
\* "a" < "b" < "c" < "s.py" and "main.py" < "mod.json".
ListDir(p) ==
    IF p = <<>>
    THEN SelectSeq(<<<<"a">>, <<"b">>, <<BoxName>>, <<ScriptName>>>>, Exists)
    ELSE IF p = <<BoxName>>
    THEN SelectSeq(<<<<BoxName, TwinName>>, <<BoxName, BoxPkgName>>>>, Exists)
    ELSE IF p = <<BoxName, BoxPkgName>>
    THEN SelectSeq(<<<<BoxName, BoxPkgName, "mod.json">>>>, Exists)
    ELSE IF p = <<BoxName, TwinName>>
    THEN SelectSeq(<<<<BoxName, TwinName, "main.py">>,
                     <<BoxName, TwinName, "mod.json">>>>, Exists)
    ELSE IF p = ExtRoot
    THEN SelectSeq(<<ExtRoot \o <<ExtScriptName>>>>, Exists)
    ELSE IF Len(p) = 1
    THEN SelectSeq(<<<<p[1], "main.py">>, <<p[1], "mod.json">>>>, Exists)
    ELSE <<>>

\* The regular files os.walk finds below a directory.
FilesUnder(p) ==
    {q \in {<<d, f>> : d \in DirNames, f \in {"mod.json", "main.py"}}
            \cup {<<ScriptName>>, <<BoxName, BoxPkgName, "mod.json">>,
                  <<BoxName, TwinName, "mod.json">>,
                  <<BoxName, TwinName, "main.py">>,
                  ExtRoot \o <<ExtScriptName>>} :
        IsFile(q) /\ Len(q) > Len(p) /\ SubSeq(q, 1, Len(p)) = p}

RECURSIVE MaxTimeOf(_)
MaxTimeOf(S) ==
    IF S = {} THEN 0
    ELSE LET q == CHOOSE x \in S : TRUE
         IN  Max2(MTime(q), MaxTimeOf(S \ {q}))

-----------------------------------------------------------------------------
(* ModEntry *)

AllIds == ManifestIds \cup {"main.py", ScriptName, ExtScriptName, ""}

ModEntry(id, path, type, manifest) ==
    [id |-> id, path |-> path, type |-> type, manifest |-> manifest,
     status |-> "NEW", last_time |-> NoTime]

\* None where a manifest is expected.
NoManifest == [none |-> TRUE]

\* What json.loads and parse_dict make of a manifest file: "bad" when they
\* raise, "noid" for a document without an "id" key.
ManifestDoc(q) == IF InPkgDir(q) THEN fs[q[1]].manifest ELSE "bar"

\* ModEntry._is_mutable
IsMutable(e) == e.type = "DIRECTORY"

\* A walk that reads the manifest file's time only.
GetLatestTime_ManifestOnly(e) ==
    IF IsDir(e.path) THEN MaxTimeOf(FilesUnder(e.path) \cap {e.path \o <<"mod.json">>})
    ELSE MTime(e.path)

\* ModEntry._get_latest_time
GetLatestTime(e) ==
    IF IsDir(e.path) THEN MaxTimeOf(FilesUnder(e.path)) ELSE MTime(e.path)

\* A pop that reports a new entry without marking it active.
PopNewStatus_Keep(e) == e

\* ModEntry._pop_new_status: the entry after the call.
PopNewStatus(e) == IF e.status = "NEW" THEN [e EXCEPT !.status = "ACTIVE"] ELSE e

\* The module name _load_as_directory imports: "<dir name>.<main stem>".
ModuleImport(e) == <<PathName(e.path), "main">>

\* ModEntry._load_as_directory.  Inputs of the call: migration, what
\* migrating the meshes directory does, and importRaises, whether the mod's
\* entry module raises while it is executed.
LoadAsDirectory(e, mods, migration, importRaises) ==
    LET is_new == e.status = "NEW"
        e1 == PopNewStatus(e)
        path_main == e.path \o <<"main.py">>
        name == ModuleImport(e)
        base == [entry |-> e1, stage |-> "dispatched", res |-> "false",
                 fail |-> "none", migrated |-> migration = "copied",
                 imp |-> "none", announced |-> FALSE, appended |-> FALSE,
                 modules |-> mods]
    IN  IF migration = "oserror"
        THEN [base EXCEPT !.res = "raise", !.fail = "io"]
        ELSE IF ~Exists(path_main)
        THEN [base EXCEPT !.fail = "nomain"]
        ELSE IF ~IsFile(path_main) \/ Suffix(path_main) # ".py"
        THEN [base EXCEPT !.fail = "notfile"]
        ELSE IF importRaises
        THEN [base EXCEPT !.res = "raise", !.fail = "import",
                          !.appended = is_new,
                          !.imp = IF name \in mods THEN "reload" ELSE "import"]
        ELSE [base EXCEPT !.res = IF is_new THEN "true" ELSE "false",
                          !.imp = IF name \in mods THEN "reload" ELSE "import",
                          !.announced = is_new,
                          !.appended = is_new,
                          !.modules = mods \cup {name}]

\* A load that does not look whether the entry's root still exists: reading
\* the time of a missing root raises.
Load_NoExists(e, mods, migration, importRaises) ==
    LET skip(stage) == [entry |-> e, stage |-> stage, res |-> "false",
                        fail |-> "none", migrated |-> FALSE, imp |-> "none",
                        announced |-> FALSE, appended |-> FALSE,
                        modules |-> mods]
        new_time == GetLatestTime(e)
        e1 == [e EXCEPT !.last_time = new_time]
    IN  IF ~IsMutable(e) /\ e.status = "ACTIVE" THEN skip("immutable")
        ELSE IF ~Exists(e.path)
        THEN [skip("unchanged") EXCEPT !.res = "raise", !.fail = "io"]
        ELSE IF new_time = e.last_time THEN skip("unchanged")
        ELSE IF e.type = "DIRECTORY"
        THEN LoadAsDirectory(e1, mods, migration, importRaises)
        ELSE [skip("dispatched") EXCEPT !.entry = e1]

\* A load that does not compare the change time with the recorded one.
Load_NoCompare(e, mods, migration, importRaises) ==
    LET skip(stage) == [entry |-> e, stage |-> stage, res |-> "false",
                        fail |-> "none", migrated |-> FALSE, imp |-> "none",
                        announced |-> FALSE, appended |-> FALSE,
                        modules |-> mods]
        new_time == GetLatestTime(e)
        e1 == [e EXCEPT !.last_time = new_time]
    IN  IF ~Exists(e.path) THEN skip("gone")
        ELSE IF ~IsMutable(e) /\ e.status = "ACTIVE" THEN skip("immutable")
        ELSE IF e.type = "DIRECTORY"
        THEN LoadAsDirectory(e1, mods, migration, importRaises)
        ELSE [skip("dispatched") EXCEPT !.entry = e1]

\* A load that records the change time only when the dispatch succeeded.
Load_RecordOnSuccess(e, mods, migration, importRaises) ==
    LET skip(stage) == [entry |-> e, stage |-> stage, res |-> "false",
                        fail |-> "none", migrated |-> FALSE, imp |-> "none",
                        announced |-> FALSE, appended |-> FALSE,
                        modules |-> mods]
        new_time == GetLatestTime(e)
        r == LoadAsDirectory(e, mods, migration, importRaises)
    IN  IF ~Exists(e.path) THEN skip("gone")
        ELSE IF ~IsMutable(e) /\ e.status = "ACTIVE" THEN skip("immutable")
        ELSE IF new_time = e.last_time THEN skip("unchanged")
        ELSE IF e.type = "DIRECTORY"
        THEN IF r.res = "raise" \/ r.fail # "none" THEN r
             ELSE [r EXCEPT !.entry.last_time = new_time]
        ELSE [skip("dispatched") EXCEPT !.entry.last_time = new_time]

\* ModEntry.load: the entry after the call, what the call returned or raised
\* (res), how far it got (stage) and what it did on the way.
Load(e, mods, migration, importRaises) ==
    LET skip(stage) == [entry |-> e, stage |-> stage, res |-> "false",
                        fail |-> "none", migrated |-> FALSE, imp |-> "none",
                        announced |-> FALSE, appended |-> FALSE,
                        modules |-> mods]
        new_time == GetLatestTime(e)
        e1 == [e EXCEPT !.last_time = new_time]
    IN  IF ~Exists(e.path) THEN skip("gone")
        ELSE IF ~IsMutable(e) /\ e.status = "ACTIVE" THEN skip("immutable")
        ELSE IF new_time = e.last_time THEN skip("unchanged")
        ELSE IF e.type = "DIRECTORY"
        THEN LoadAsDirectory(e1, mods, migration, importRaises)
        ELSE [skip("dispatched") EXCEPT !.entry = e1]

-----------------------------------------------------------------------------
(* ModLoaderSubsystem: scanning *)

\* ModLoaderSubsystem._is_path_valid_for_scan
IsPathValidForScan(p) ==
    /\ PathName(p) \notin {"__pycache__"}
    /\ Suffix(p) \notin {".pyc", ".exe"}

\* ModLoaderSubsystem._get_valid_scan_list
GetValidScanList(p) == SelectSeq(ListDir(p), IsPathValidForScan)

\* A lookup that hands out a manifest for a file it could not parse.
LookForDirManifest_Unchecked(p) ==
    LET found == SelectSeq(ListDir(p), LAMBDA q : PathName(q) \in VALID_MANIFESTS)
    IN  IF Len(found) < 1 THEN NoManifest
        ELSE IF ManifestDoc(found[1]) = "bad" THEN [id |-> "bar"]
        ELSE IF ManifestDoc(found[1]) = "noid" THEN [id |-> ""]
        ELSE [id |-> ManifestDoc(found[1])]

\* ModLoaderSubsystem._look_for_dir_manifest: the manifest, or NoManifest
\* for None.  A document without "id" leaves ModManifest.id at its default.
LookForDirManifest(p) ==
    LET found == SelectSeq(ListDir(p), LAMBDA q : PathName(q) \in VALID_MANIFESTS)
    IN  IF Len(found) < 1 THEN NoManifest
        ELSE IF ManifestDoc(found[1]) = "bad" THEN NoManifest
        ELSE IF ManifestDoc(found[1]) = "noid" THEN [id |-> ""]
        ELSE [id |-> ManifestDoc(found[1])]

\* A registration that replaces the entry an id already has.
AddModEntry_Overwrite(st, entry) ==
    [st EXCEPT !.ents = [i \in DOMAIN st.ents \cup {entry.id} |->
                            IF i = entry.id THEN entry ELSE st.ents[i]],
               !.ord = IF entry.id \in DOMAIN st.ents THEN st.ord
                       ELSE Append(st.ord, entry.id)]

\* ModLoaderSubsystem._add_mod_entry on the registry st = (ents, ord).
AddModEntry(st, entry) ==
    IF entry.id \in DOMAIN st.ents
    THEN st
    ELSE [st EXCEPT !.ents = [i \in DOMAIN st.ents \cup {entry.id} |->
                                 IF i = entry.id THEN entry ELSE st.ents[i]],
                    !.ord = Append(st.ord, entry.id)]

\* list.remove(x): drops the first occurrence.
RECURSIVE RemoveFirst(_, _)
RemoveFirst(s, x) ==
    IF s = <<>> THEN <<>>
    ELSE IF Head(s) = x THEN Tail(s)
    ELSE <<Head(s)>> \o RemoveFirst(Tail(s), x)

RECURSIVE ScanPaths(_, _, _, _)

\* A scan that keeps a directory without a manifest among the scanned paths.
ScanPath_KeepsDir(path, st, lastPaths, al) ==
    LET st1 == [st EXCEPT !.sp = Append(st.sp, path)]
        seen == IF al THEN st1.sp ELSE lastPaths
    IN  IF path \in Range(seen) THEN st1
        ELSE IF IsDir(path)
        THEN LET manifest == LookForDirManifest(path)
             IN  IF manifest # NoManifest
                 THEN AddModEntry(st1, ModEntry(manifest.id, path, "DIRECTORY",
                                                manifest))
                 ELSE ScanPaths(GetValidScanList(path), st1, lastPaths, al)
        ELSE IF IsFile(path) /\ Suffix(path) = ".py"
        THEN AddModEntry(st1, ModEntry(PathName(path), path, "PLUGIN", NoManifest))
        ELSE st1

\* The loop of scan_for_mods over _paths_to_scan; a directory without a
\* manifest is scanned by the nested call scan_for_mods(path).  lastPaths is
\* _last_scan_paths when the loop starts; when al holds it is the very list
\* the loop appends to, so that it contains every path just appended.
ScanPath(path, st, lastPaths, al) ==
    LET st1 == [st EXCEPT !.sp = Append(st.sp, path)]
        seen == IF al THEN st1.sp ELSE lastPaths
    IN  IF path \in Range(seen) THEN st1
        ELSE IF IsDir(path)
        THEN LET manifest == LookForDirManifest(path)
             IN  IF manifest # NoManifest
                 THEN AddModEntry(st1, ModEntry(manifest.id, path, "DIRECTORY",
                                                manifest))
                 ELSE LET st2 == ScanPaths(GetValidScanList(path), st1,
                                           lastPaths, al)
                      IN  [st2 EXCEPT !.sp = RemoveFirst(st2.sp, path)]
        ELSE IF IsFile(path) /\ Suffix(path) = ".py"
        THEN AddModEntry(st1, ModEntry(PathName(path), path, "PLUGIN", NoManifest))
        ELSE st1

ScanPaths(paths, st, lastPaths, al) ==
    IF paths = <<>> THEN st
    ELSE ScanPaths(Tail(paths), ScanPath(Head(paths), st, lastPaths, al),
                   lastPaths, al)

\* _paths_to_scan of scan_for_mods(): the valid paths of every directory to
\* scan, in the order of dirs_to_scan.
RECURSIVE PathsToScan(_)
PathsToScan(roots) ==
    IF roots = <<>> THEN <<>>
    ELSE GetValidScanList(Head(roots)) \o PathsToScan(Tail(roots))

\* os.listdir raises for a directory to scan that is gone or is no directory.
ScanRaises == \E i \in DOMAIN dirs_to_scan : ~IsDir(dirs_to_scan[i])

\* scan_for_mods() without a path, up to the comparison with the previous
\* scan: _scan_paths is reset and every directory to scan is walked.
GlobalScan ==
    ScanPaths(PathsToScan(dirs_to_scan),
              [sp |-> <<>>, ents |-> mod_entries, ord |-> order],
              last_scan_paths, FALSE)

-----------------------------------------------------------------------------
(* State after ModLoaderSubsystem.__init__ *)

Idle == [pc |-> "idle", it |-> 0, size |-> 0, loaded |-> FALSE,
         exit |-> "CLEAN", locked |-> FALSE, failed |-> FALSE, raised |-> FALSE]

NeverLoaded == [seen |-> FALSE, present |-> FALSE, time |-> 0, failed |-> FALSE,
                ran |-> FALSE]

NoLoad == [id |-> "", stage |-> "none", res |-> "false", fail |-> "none",
           migrated |-> FALSE, imp |-> "none", announced |-> FALSE,
           appended |-> FALSE, typeBefore |-> "PLUGIN", statusBefore |-> "NEW",
           timeBefore |-> NoTime, statusAfter |-> "NEW", timeAfter |-> NoTime,
           present |-> FALSE, changeTime |-> 0, mainFile |-> FALSE,
           obsBefore |-> NeverLoaded]

NoEnd == [outcome |-> "none", cue |-> <<>>, it |-> 0, size |-> 0,
          loaded |-> FALSE, exit |-> "CLEAN", failed |-> FALSE,
          raised |-> FALSE, first |-> FALSE]

\* A package directory as written at time t.
NewDir(man, mn, t) ==
    [exists |-> TRUE, manifest |-> man, main |-> mn, tman |-> t,
     tmain |-> IF mn = "file" THEN t ELSE 0]

NoCall == [op |-> "none", arg |-> <<>>, res |-> "none"]

NoMig == [pc |-> "none", role |-> "none", server |-> FALSE,
          platform |-> "none", source |-> "none", children |-> {},
          allowed |-> {}, made |-> FALSE, dest |-> {}, raised |-> "none"]

\* The contexts that call scan_for_mods(): the main context
\* (on_app_unsuspend) and the scan thread (_thread_scan).
Contexts == {"main", "thread"}
NoPath == <<"">>
NotScanning == [pc |-> "idle", todo |-> <<>>, pending |-> NoPath]
NoWalk == [t \in Contexts |-> NotScanning]

\* The host process seen from inside one loader: nothing of it is followed.
NoHost == [modloader |-> FALSE, package |-> FALSE, loaders |-> <<>>]

\* The mods directory with nothing but package directories in it, and no
\* path outside it.
PlainTree == [root |-> TRUE, script |-> FALSE, box |-> "none", ext |-> "none"]

\* The loader as __init__ leaves it.
LoaderInit ==
    /\ dirs_to_scan = <<<<>>>>
    /\ aliased = FALSE
    /\ mod_entries = <<>>
    /\ order = <<>>
    /\ scan_paths = <<>>
    /\ last_scan_paths = <<>>
    /\ scan_finished = FALSE
    /\ modules = {}
    /\ phase = "constructed"
    /\ fg = Idle
    /\ bg = "sleep"
    /\ last = NoLoad
    /\ ended = NoEnd
    /\ obs = [i \in AllIds |-> NeverLoaded]
    /\ notified = [i \in AllIds |-> 0]
    /\ api = NoCall
    /\ produced = <<>>

\* The loader with no call of migrate_files under way and no scan followed
\* statement by statement.
LoaderOnly == mig = NoMig /\ walk = NoWalk /\ host = NoHost

\* The mods directory holds any packages when the loader is constructed.
Init ==
    /\ fs \in [DirNames -> {NoDir} \cup
                 {NewDir(man, mn, 1) : man \in ManifestIds \cup {"bad"},
                                       mn \in MainStates}]
    /\ \A d \in DirNames : fs[d].exists => fs[d].manifest \in ManifestStates(d)
    /\ tree = PlainTree
    /\ clock = 1
    /\ LoaderInit
    /\ LoaderOnly

\* A step that neither calls ModEntry.load nor leaves _read_mod_entries.
NoLoadEvent == last' = NoLoad /\ ended' = NoEnd

\* A step that in addition is no scan or registration call.
NoEvent == NoLoadEvent /\ api' = NoCall

-----------------------------------------------------------------------------
(* The user changing files below the mods directory *)

\* One more change is within the bound; it is stamped with the next time.
Change == clock <= MaxChanges /\ clock' = clock + 1

CreatePkg(d, man, mn) ==
    /\ Change
    /\ ~fs[d].exists
    /\ fs' = [fs EXCEPT ![d] = NewDir(man, mn, clock')]
    /\ NoEvent
    /\ UNCHANGED <<tree, loaderVars, phase, fg, bg, histVars>>

TouchFile(d, f) ==
    /\ Change
    /\ IsFile(<<d, f>>)
    /\ fs' = [fs EXCEPT ![d] =
                IF f = "mod.json" THEN [@ EXCEPT !.tman = clock']
                ELSE [@ EXCEPT !.tmain = clock']]
    /\ NoEvent
    /\ UNCHANGED <<tree, loaderVars, phase, fg, bg, histVars>>

\* main.py written as a file or made a directory.
WriteMain(d, mn) ==
    /\ Change
    /\ fs[d].exists
    /\ mn # "missing"
    /\ fs[d].main # mn
    /\ fs' = [fs EXCEPT ![d] =
                [@ EXCEPT !.main = mn,
                          !.tmain = IF mn = "file" THEN clock' ELSE 0]]
    /\ NoEvent
    /\ UNCHANGED <<tree, loaderVars, phase, fg, bg, histVars>>

RemoveMain(d) ==
    /\ Change
    /\ fs[d].exists
    /\ fs[d].main # "missing"
    /\ fs' = [fs EXCEPT ![d] = [@ EXCEPT !.main = "missing", !.tmain = 0]]
    /\ NoEvent
    /\ UNCHANGED <<tree, loaderVars, phase, fg, bg, histVars>>

RemovePkg(d) ==
    /\ Change
    /\ fs[d].exists
    /\ fs' = [fs EXCEPT ![d] = NoDir]
    /\ NoEvent
    /\ UNCHANGED <<tree, loaderVars, phase, fg, bg, histVars>>

-----------------------------------------------------------------------------
(* ModLoaderSubsystem: scan and load scheduling *)

\* self._lock is held by _post_scan_load for the whole of _read_mod_entries.
LockHeld == fg.pc = "applying" /\ fg.locked

\* The for loop of _read_mod_entries creates the iterator over
\* self._mod_entries.values(), here over the entries ents.
StartPass(ents, locked) ==
    [pc |-> "applying", it |-> 1, size |-> Cardinality(DOMAIN ents),
     loaded |-> FALSE, exit |-> "CLEAN", locked |-> locked, failed |-> FALSE,
     raised |-> FALSE]

\* scan_for_mods() leaving with the exception of os.listdir: _scan_paths has
\* been replaced by an empty list and nothing else has been done.
ScanAborts ==
    /\ scan_paths' = <<>>
    /\ aliased' = FALSE
    /\ api' = [op |-> "scan", arg |-> <<>>, res |-> "OSError"]
    /\ UNCHANGED <<mod_entries, order, last_scan_paths, scan_finished, produced>>

\* scan_for_mods() as called with no path: the whole walk, then the flag is
\* raised under the lock when the path list changed, then _last_scan_paths
\* is made the list just built.  On the scan thread the caller waits for the
\* lock while an apply pass holds it, and an exception ends the thread.
ScanForMods(onThread) ==
    IF ScanRaises
    THEN /\ ScanAborts
         /\ bg' = IF onThread THEN "dead" ELSE bg
    ELSE LET st == GlobalScan
         IN  /\ mod_entries' = st.ents
             /\ order' = st.ord
             /\ scan_paths' = st.sp
             /\ produced' = st.sp
             /\ api' = [op |-> "scan", arg |-> <<>>, res |-> "ok"]
             /\ IF last_scan_paths # st.sp /\ onThread /\ LockHeld
                THEN /\ bg' = "blocked"
                     /\ aliased' = FALSE
                     /\ UNCHANGED <<last_scan_paths, scan_finished>>
                ELSE /\ scan_finished' =
                           (scan_finished \/ last_scan_paths # st.sp)
                     /\ last_scan_paths' = st.sp
                     /\ aliased' = TRUE
                     /\ UNCHANGED bg

\* on_app_running: scan, then _read_mod_entries directly; the scan thread is
\* started when that pass is over.  When the scan raises, on_app_running is
\* left before the pass and the thread is never started.
OnAppRunning ==
    /\ phase = "constructed"
    /\ IF ScanRaises
       THEN /\ ScanAborts
            /\ phase' = "running"
            /\ bg' = "dead"
            /\ UNCHANGED fg
       ELSE /\ ScanForMods(FALSE)
            /\ phase' = "starting"
            /\ fg' = StartPass(mod_entries', FALSE)
    /\ NoLoadEvent
    /\ UNCHANGED <<fsVars, modules, dirs_to_scan, scanHistVars>>

\* _thread_scan: one turn of the loop.
ThreadScan ==
    /\ phase = "running"
    /\ bg = "sleep"
    /\ ScanForMods(TRUE)
    /\ NoLoadEvent
    /\ UNCHANGED <<fsVars, modules, dirs_to_scan, phase, fg, scanHistVars>>

\* The scan thread obtains the lock it was waiting for.
ThreadScanFinish ==
    /\ bg = "blocked"
    /\ ~LockHeld
    /\ scan_finished' = TRUE
    /\ last_scan_paths' = scan_paths
    /\ aliased' = TRUE
    /\ bg' = "sleep"
    /\ NoEvent
    /\ UNCHANGED <<fsVars, mod_entries, order, scan_paths, modules,
                   dirs_to_scan, phase, fg, histVars>>

\* on_app_unsuspend, on the main context.
OnAppUnsuspend ==
    /\ phase = "running"
    /\ fg.pc = "idle"
    /\ ScanForMods(FALSE)
    /\ NoLoadEvent
    /\ UNCHANGED <<fsVars, modules, dirs_to_scan, phase, fg, scanHistVars>>

\* A tick that clears the flag without reading the entries.
PostScanLoad_NoPass ==
    /\ fg.pc = "idle"
    /\ phase # "starting"
    /\ scan_finished
    /\ scan_finished' = FALSE
    /\ NoEvent
    /\ UNCHANGED <<fsVars, mod_entries, order, scan_paths, last_scan_paths,
                   modules, dirs_to_scan, aliased, phase, fg, bg, histVars>>

\* _post_scan_load finding the flag set.
PostScanLoad ==
    /\ fg.pc = "idle"
    /\ phase # "starting"
    /\ scan_finished
    /\ scan_finished' = FALSE
    /\ fg' = StartPass(mod_entries, TRUE)
    /\ NoEvent
    /\ UNCHANGED <<fsVars, mod_entries, order, scan_paths, last_scan_paths,
                   modules, dirs_to_scan, aliased, phase, bg, histVars>>

\* The newest modification time among the regular files of an entry's root,
\* read off the file system state (0 when the root is gone or holds none).
NewestMTime(e) ==
    IF ~Exists(e.path) THEN 0
    ELSE IF ~InPkgDir(e.path) THEN 1
    ELSE IF Len(e.path) = 2 THEN fs[e.path[1]].tmain
    ELSE Max2(fs[e.path[1]].tman,
              IF fs[e.path[1]].main = "file" THEN fs[e.path[1]].tmain ELSE 0)

\* What the file system shows of an entry's root at a load call.
ChangeState(e, failed) ==
    [seen |-> TRUE, present |-> Exists(e.path), time |-> NewestMTime(e),
     failed |-> failed, ran |-> FALSE]

\* A loop that does not note what a load raised.
HandleLoadResult_Ignore(exit, res) == exit

\* The try / except of _read_mod_entries: the exit status after a load that
\* returned or raised.
HandleLoadResult(exit, res) == IF res = "raise" THEN "ERROR" ELSE exit

\* One turn of the for loop of _read_mod_entries: load the next entry,
\* catching what it raises.
ReadModEntry(migration, importRaises) ==
    /\ fg.pc = "applying"
    /\ Cardinality(DOMAIN mod_entries) = fg.size
    /\ fg.it <= Len(order)
    /\ LET id == order[fg.it]
           e == mod_entries[id]
           r == Load(e, modules, migration, importRaises)
           failed == r.res = "raise" \/ r.fail # "none"
       IN  /\ mod_entries' = [mod_entries EXCEPT ![id] = r.entry]
           /\ modules' = r.modules
           /\ fg' = [fg EXCEPT !.it = fg.it + 1,
                               !.loaded = fg.loaded \/ r.res = "true",
                               !.exit = HandleLoadResult(fg.exit, r.res),
                               !.failed = fg.failed \/ failed,
                               !.raised = fg.raised \/ r.res = "raise"]
           /\ last' = [id |-> id, stage |-> r.stage, res |-> r.res,
                       fail |-> r.fail, migrated |-> r.migrated,
                       imp |-> r.imp, announced |-> r.announced,
                       appended |-> r.appended,
                       typeBefore |-> e.type, statusBefore |-> e.status,
                       timeBefore |-> e.last_time,
                       statusAfter |-> r.entry.status,
                       timeAfter |-> r.entry.last_time,
                       present |-> Exists(e.path),
                       changeTime |-> NewestMTime(e),
                       mainFile |-> IsFile(e.path \o <<"main.py">>),
                       obsBefore |-> obs[id]]
           /\ obs' = [obs EXCEPT ![id] =
                        [ChangeState(e, IF r.stage = "dispatched" THEN failed
                                        ELSE obs[id].failed)
                           EXCEPT !.ran = obs[id].ran
                                            \/ (r.imp # "none" /\ r.res # "raise")]]
           /\ notified' = [notified EXCEPT ![id] =
                             @ + IF r.announced THEN 1 ELSE 0]
    /\ ended' = NoEnd
    /\ api' = NoCall
    /\ UNCHANGED <<fsVars, order, scan_paths, last_scan_paths, scan_finished,
                   dirs_to_scan, aliased, phase, bg, produced, mig, walk, host>>

\* The dict iterator finds the size of _mod_entries changed under it and
\* raises RuntimeError, which leaves _read_mod_entries.
ReadAborted ==
    /\ fg.pc = "applying"
    /\ Cardinality(DOMAIN mod_entries) # fg.size
    /\ fg' = Idle
    /\ ended' = [outcome |-> "aborted", cue |-> <<>>, it |-> fg.it,
                 size |-> fg.size, loaded |-> fg.loaded, exit |-> fg.exit,
                 failed |-> fg.failed, raised |-> fg.raised,
                 first |-> phase = "starting"]
    /\ last' = NoLoad
    /\ api' = NoCall
    /\ UNCHANGED <<fsVars, loaderVars, phase, bg, histVars>>

\* The loop is over: the sound, if any entry returned True.
ReadFinished ==
    /\ fg.pc = "applying"
    /\ Cardinality(DOMAIN mod_entries) = fg.size
    /\ fg.it > Len(order)
    /\ fg' = Idle
    /\ ended' = [outcome |-> "done",
                 cue |-> IF fg.loaded
                         THEN <<IF fg.exit = "CLEAN" THEN "gunCocking"
                                ELSE "error">>
                         ELSE <<>>,
                 it |-> fg.it, size |-> fg.size, loaded |-> fg.loaded,
                 exit |-> fg.exit, failed |-> fg.failed, raised |-> fg.raised,
                 first |-> phase = "starting"]
    /\ last' = NoLoad
    /\ phase' = IF phase = "starting" THEN "running" ELSE phase
    /\ api' = NoCall
    /\ UNCHANGED <<fsVars, loaderVars, bg, histVars>>

Next ==
    \/ \E d \in DirNames, mn \in MainStates :
          \E man \in ManifestStates(d) : CreatePkg(d, man, mn)
    \/ \E d \in DirNames, f \in {"mod.json", "main.py"} : TouchFile(d, f)
    \/ \E d \in DirNames, mn \in MainStates : WriteMain(d, mn)
    \/ \E d \in DirNames : RemoveMain(d)
    \/ \E d \in DirNames : RemovePkg(d)
    \/ OnAppRunning
    \/ ThreadScan
    \/ ThreadScanFinish
    \/ OnAppUnsuspend
    \/ PostScanLoad
    \/ \E migration \in Migrations, importRaises \in BOOLEAN :
          ReadModEntry(migration, importRaises)
    \/ ReadAborted
    \/ ReadFinished

Spec == Init /\ [][Next]_vars

TypeOK ==
    /\ clock \in 1..(MaxChanges + 1)
    /\ DOMAIN mod_entries \subseteq AllIds
    /\ Range(order) = DOMAIN mod_entries
    /\ scan_finished \in BOOLEAN
    /\ phase \in {"constructed", "starting", "running"}
    /\ bg \in {"sleep", "blocked", "dead"}
    /\ aliased \in BOOLEAN
    /\ aliased => scan_paths = last_scan_paths

-----------------------------------------------------------------------------
(* The loader driven through its public interface: scans of one directory,  *)
(* registration of further directories to scan, and directories to scan    *)
(* that disappear.                                                         *)

\* Directories scan_for_mods(path) is called with from outside.
ScopedDirs == {<<"a">>, <<BoxName>>}

\* scan_for_mods(path) called on the main context between apply passes.
\* _update_sys_paths and the log are not part of the state.
ScopedScan(p) ==
    /\ phase # "starting"
    /\ fg.pc = "idle"
    /\ Len(scan_paths) < MaxPaths
    /\ IF ~IsDir(p)
       THEN /\ api' = [op |-> "scoped", arg |-> p, res |-> "NotADirectoryError"]
            /\ UNCHANGED <<mod_entries, order, scan_paths, last_scan_paths>>
       ELSE LET st == ScanPaths(GetValidScanList(p),
                                [sp |-> scan_paths, ents |-> mod_entries,
                                 ord |-> order],
                                last_scan_paths, aliased)
            IN  /\ mod_entries' = st.ents
                /\ order' = st.ord
                /\ scan_paths' = st.sp
                /\ last_scan_paths' = IF aliased THEN st.sp ELSE last_scan_paths
                /\ api' = [op |-> "scoped", arg |-> p, res |-> "ok"]
    /\ NoLoadEvent
    /\ UNCHANGED <<fsVars, scan_finished, modules, dirs_to_scan, aliased, phase,
                   fg, bg, histVars>>

\* A registration that accepts any path.
CheckRoot_Unchecked(p) == "ok"

\* What registering p as a directory to scan answers: the error raised, or
\* "ok".
CheckRoot(p) ==
    IF ~Exists(p) THEN "FileNotFoundError"
    ELSE IF ~IsDir(p) THEN "NotADirectoryError"
    ELSE "ok"

\* add_dir_to_scan(path)
AddDirToScan(p) ==
    /\ fg.pc = "idle"
    /\ Len(dirs_to_scan) < MaxRoots
    /\ LET res == IF p \in Range(dirs_to_scan) THEN "ok" ELSE CheckRoot(p)
       IN  /\ api' = [op |-> "add_dir_to_scan", arg |-> p, res |-> res]
           /\ dirs_to_scan' = IF res = "ok" /\ p \notin Range(dirs_to_scan)
                              THEN Append(dirs_to_scan, p)
                              ELSE dirs_to_scan
    /\ NoLoadEvent
    /\ UNCHANGED <<fsVars, mod_entries, order, scan_paths, last_scan_paths,
                   scan_finished, modules, aliased, phase, fg, bg, histVars>>

\* add_scan_path(path)
AddScanPath(p) ==
    /\ fg.pc = "idle"
    /\ Len(dirs_to_scan) < MaxRoots
    /\ LET res == CheckRoot(p)
       IN  /\ api' = [op |-> "add_scan_path", arg |-> p, res |-> res]
           /\ dirs_to_scan' = IF res = "ok" THEN Append(dirs_to_scan, p)
                              ELSE dirs_to_scan
    /\ NoLoadEvent
    /\ UNCHANGED <<fsVars, mod_entries, order, scan_paths, last_scan_paths,
                   scan_finished, modules, aliased, phase, fg, bg, histVars>>

\* The user deletes a directory that is scanned, with all it holds.
RemoveRoot(r) ==
    /\ Change
    /\ IsDir(r)
    /\ IF r = <<>>
       THEN /\ tree' = [tree EXCEPT !.root = FALSE, !.script = FALSE,
                                    !.box = "none"]
            /\ fs' = [d \in DirNames |-> NoDir]
       ELSE /\ tree' = [tree EXCEPT !.ext = "none"]
            /\ UNCHANGED fs
    /\ NoEvent
    /\ UNCHANGED <<loaderVars, phase, fg, bg, histVars>>

\* How many of the things ScanInit chooses from are present.
ItemCount ==
    Cardinality({d \in DirNames : fs[d].exists})
        + (IF tree.script THEN 1 ELSE 0)
        + (IF tree.box # "none" THEN 1 ELSE 0)
        + (IF tree.ext # "none" THEN 1 ELSE 0)

\* The mods directory holds, when the loader is constructed, any of: a
\* package with id foo, a package whose manifest has no "id", a stray
\* script, and a directory without a manifest, empty or with a package in a
\* subdirectory; the path outside it is absent, a file or a directory.
ScanInit ==
    /\ fs \in [DirNames -> {NoDir, NewDir("foo", "missing", 1),
                             NewDir("noid", "missing", 1)}]
    /\ fs["a"].manifest # "noid"
    /\ fs["b"].manifest # "foo"
    /\ tree \in [root : {TRUE}, script : BOOLEAN,
                  box : {"none", "empty", "pkg"},
                  ext : {"none", "file", "dir"}]
    /\ ItemCount <= MaxItems
    /\ clock = 1
    /\ LoaderInit
    /\ LoaderOnly

ScanNext ==
    \/ \E r \in {<<>>, ExtRoot} : RemoveRoot(r)
    \/ \E p \in ScopedDirs : ScopedScan(p)
    \/ AddDirToScan(ExtRoot)
    \/ AddScanPath(ExtRoot)
    \/ OnAppRunning
    \/ ThreadScan
    \/ ThreadScanFinish
    \/ OnAppUnsuspend
    \/ PostScanLoad
    \/ \E migration \in Migrations, importRaises \in BOOLEAN :
          ReadModEntry(migration, importRaises)
    \/ ReadAborted
    \/ ReadFinished

ScanSpec == ScanInit /\ [][ScanNext]_vars

-----------------------------------------------------------------------------
(* The host process: the import of the fusecore package and the subsystems  *)
(* it registers with the app                                                *)

\* A ModLoaderSubsystem object as __init__ leaves it, named after the
\* module attribute it is bound to.
NewLoader(name) ==
    [name |-> name, started |-> FALSE, thread |-> FALSE, ents |-> <<>>,
     ord |-> <<>>, lastPaths |-> <<>>]

\* The last statement of _modloader.py, run when the module is first
\* imported: ModLoaderInstance = bs.app.register_subsystem(ModLoaderSubsystem())
ImportModLoaderModule ==
    /\ ~host.modloader
    /\ host' = [host EXCEPT !.modloader = TRUE,
                            !.loaders = Append(@, NewLoader("ModLoaderInstance"))]
    /\ NoEvent
    /\ UNCHANGED <<fsVars, loaderVars, phase, fg, bg, obs, notified, produced,
                   mig, walk>>

\* fusecore/__init__.py after its imports, which include _modloader:
\* ModLoader = bs.app.register_subsystem(_modloader.ModLoaderSubsystem())
ImportPackage ==
    /\ host.modloader
    /\ ~host.package
    /\ host' = [host EXCEPT !.package = TRUE,
                            !.loaders = Append(@, NewLoader("ModLoader"))]
    /\ NoEvent
    /\ UNCHANGED <<fsVars, loaderVars, phase, fg, bg, obs, notified, produced,
                   mig, walk>>

\* scan_for_mods() of the i-th registered object, on its own registry and
\* path lists.
LoaderScan(i) ==
    LET l == host.loaders[i]
        st == ScanPaths(PathsToScan(dirs_to_scan),
                        [sp |-> <<>>, ents |-> l.ents, ord |-> l.ord],
                        l.lastPaths, FALSE)
    IN  [l EXCEPT !.ents = st.ents, !.ord = st.ord, !.lastPaths = st.sp]

\* The app reaches the running state and calls on_app_running of the i-th
\* registered subsystem: the scan, the first apply pass (which changes no
\* key of the registry), and the start of its scan thread.
HostAppRunning(i) ==
    /\ host.package
    /\ i \in DOMAIN host.loaders
    /\ ~host.loaders[i].started
    /\ ~ScanRaises
    /\ host' = [host EXCEPT !.loaders[i] =
                    [LoaderScan(i) EXCEPT !.started = TRUE, !.thread = TRUE]]
    /\ NoEvent
    /\ UNCHANGED <<fsVars, loaderVars, phase, fg, bg, obs, notified, produced,
                   mig, walk>>

\* One turn of _thread_scan of the i-th object.
HostThreadScan(i) ==
    /\ i \in DOMAIN host.loaders
    /\ host.loaders[i].thread
    /\ ~ScanRaises
    /\ host' = [host EXCEPT !.loaders[i] = LoaderScan(i)]
    /\ NoEvent
    /\ UNCHANGED <<fsVars, loaderVars, phase, fg, bg, obs, notified, produced,
                   mig, walk>>

\* The process starts with nothing of the package imported; the mods
\* directory holds any packages.
HostInit ==
    /\ fs \in [DirNames -> {NoDir, NewDir("foo", "missing", 1),
                             NewDir("bar", "missing", 1)}]
    /\ \A d \in DirNames : fs[d].exists => fs[d].manifest \in ManifestStates(d)
    /\ tree = PlainTree
    /\ clock = 1
    /\ LoaderInit
    /\ mig = NoMig
    /\ walk = NoWalk
    /\ host = NoHost

HostNext ==
    \/ ImportModLoaderModule
    \/ ImportPackage
    \/ \E i \in 1..2 : HostAppRunning(i)
    \/ \E i \in 1..2 : HostThreadScan(i)
    \/ \E d \in DirNames : \E man \in ManifestStates(d) :
          CreatePkg(d, man, "missing")
    \/ \E d \in DirNames : RemovePkg(d)

HostSpec == HostInit /\ [][HostNext]_vars

-----------------------------------------------------------------------------
(* scan_for_mods() on two contexts at once: the scan on resume from suspend *)
(* and the scan of the polling thread, each followed statement by statement *)

\* The context may be inside scan_for_mods(): the main context between
\* apply passes, the thread while it lives.
MayScan(t) ==
    /\ phase = "running"
    /\ IF t = "main" THEN fg.pc = "idle" ELSE bg = "sleep"

\* Lines 565-569: _scan_paths is made a new empty list and the paths to scan
\* are listed.
ScanBegin(t) ==
    /\ MayScan(t)
    /\ walk[t].pc = "idle"
    /\ ~ScanRaises
    /\ scan_paths' = <<>>
    /\ aliased' = FALSE
    /\ walk' = [walk EXCEPT ![t] = [pc |-> "loop",
                                     todo |-> PathsToScan(dirs_to_scan),
                                     pending |-> NoPath]]
    /\ NoEvent
    /\ UNCHANGED <<fsVars, mod_entries, order, last_scan_paths, scan_finished,
                   modules, dirs_to_scan, phase, fg, bg, obs, notified,
                   produced, mig, host>>

\* One turn of the loop of lines 575-622, on whatever list _scan_paths is
\* now.  For a directory without a manifest the turn stops before the
\* remove of line 606.
ScanLoop(t) ==
    /\ MayScan(t)
    /\ walk[t].pc = "loop"
    /\ walk[t].todo # <<>>
    /\ LET path == Head(walk[t].todo)
           st0 == [sp |-> scan_paths, ents |-> mod_entries, ord |-> order]
           seen == IF aliased THEN Append(scan_paths, path) ELSE last_scan_paths
           recursed == /\ path \notin Range(seen)
                       /\ IsDir(path)
                       /\ LookForDirManifest(path) = NoManifest
           st == IF recursed
                 THEN ScanPaths(GetValidScanList(path),
                                [st0 EXCEPT !.sp = Append(@, path)],
                                last_scan_paths, aliased)
                 ELSE ScanPath(path, st0, last_scan_paths, aliased)
       IN  /\ scan_paths' = st.sp
           /\ last_scan_paths' = IF aliased THEN st.sp ELSE last_scan_paths
           /\ mod_entries' = st.ents
           /\ order' = st.ord
           /\ walk' = [walk EXCEPT ![t] =
                         [pc |-> IF recursed THEN "remove" ELSE "loop",
                          todo |-> Tail(walk[t].todo),
                          pending |-> IF recursed THEN path ELSE NoPath]]
    /\ NoEvent
    /\ UNCHANGED <<fsVars, scan_finished, modules, dirs_to_scan, aliased,
                   phase, fg, bg, obs, notified, produced, mig, host>>

\* Line 606: list.remove raises ValueError when the path is not in the list
\* _scan_paths is now; the exception leaves scan_for_mods and, on the
\* thread, ends it.
ScanRemove(t) ==
    /\ MayScan(t)
    /\ walk[t].pc = "remove"
    /\ IF walk[t].pending \in Range(scan_paths)
       THEN /\ scan_paths' = RemoveFirst(scan_paths, walk[t].pending)
            /\ last_scan_paths' = IF aliased THEN scan_paths'
                                  ELSE last_scan_paths
            /\ walk' = [walk EXCEPT ![t] = [@ EXCEPT !.pc = "loop",
                                                     !.pending = NoPath]]
            /\ UNCHANGED bg
       ELSE /\ walk' = [walk EXCEPT ![t] = [@ EXCEPT !.pc = "raised"]]
            /\ bg' = IF t = "thread" THEN "dead" ELSE bg
            /\ UNCHANGED <<scan_paths, last_scan_paths>>
    /\ NoEvent
    /\ UNCHANGED <<fsVars, mod_entries, order, scan_finished, modules,
                   dirs_to_scan, aliased, phase, fg, obs, notified, produced,
                   mig, host>>

\* Lines 625-629: the comparison, the flag, and _last_scan_paths made the
\* list _scan_paths is now.
ScanEnd(t) ==
    /\ MayScan(t)
    /\ walk[t].pc = "loop"
    /\ walk[t].todo = <<>>
    /\ scan_finished' = (scan_finished \/ last_scan_paths # scan_paths)
    /\ last_scan_paths' = scan_paths
    /\ aliased' = TRUE
    /\ walk' = [walk EXCEPT ![t] = NotScanning]
    /\ NoEvent
    /\ UNCHANGED <<fsVars, mod_entries, order, scan_paths, modules,
                   dirs_to_scan, phase, fg, bg, obs, notified, produced, mig, host>>

\* The mods directory holds up to MaxItems of: a package, a stray script, a
\* directory without a manifest, empty or with a package inside.
RaceInit ==
    /\ fs \in [DirNames -> {NoDir, NewDir("foo", "missing", 1)}]
    /\ ~fs["b"].exists
    /\ tree \in [root : {TRUE}, script : BOOLEAN,
                  box : {"none", "empty", "pkg"}, ext : {"none"}]
    /\ ItemCount <= MaxItems
    /\ clock = 1
    /\ LoaderInit
    /\ LoaderOnly

RaceNext ==
    \/ OnAppRunning
    \/ ReadModEntry("none", FALSE)
    \/ ReadFinished
    \/ \E t \in Contexts : ScanBegin(t)
    \/ \E t \in Contexts : ScanLoop(t)
    \/ \E t \in Contexts : ScanRemove(t)
    \/ \E t \in Contexts : ScanEnd(t)

RaceSpec == RaceInit /\ [][RaceNext]_vars

-----------------------------------------------------------------------------
(* Scans of a directory outside the mods directory that is not among the    *)
(* directories to scan.                                                     *)

\* The path outside the mods directory is a directory with a script in it;
\* the mods directory may hold a package and a stray script.
RootInit ==
    /\ fs \in [DirNames -> {NoDir, NewDir("foo", "missing", 1)}]
    /\ ~fs["b"].exists
    /\ tree \in [root : {TRUE}, script : BOOLEAN, box : {"none"}, ext : {"dir"}]
    /\ clock = 1
    /\ LoaderInit
    /\ LoaderOnly

RootNext ==
    \/ ScopedScan(ExtRoot)
    \/ RemoveRoot(ExtRoot)
    \/ OnAppRunning
    \/ ThreadScan
    \/ ThreadScanFinish
    \/ OnAppUnsuspend
    \/ PostScanLoad
    \/ ReadModEntry("none", FALSE)
    \/ ReadFinished

RootSpec == RootInit /\ [][RootNext]_vars

\* The same with the scheduling the host gives: the load timer repeats, so
\* a tick that finds the flag set is not put off for ever; a pass that has
\* started runs to its end; a thread waiting for the lock gets it once it is
\* free.
TickSpec ==
    /\ RootSpec
    /\ WF_vars(PostScanLoad)
    /\ WF_vars(ReadModEntry("none", FALSE))
    /\ WF_vars(ReadFinished)
    /\ WF_vars(ThreadScanFinish)

-----------------------------------------------------------------------------
(* A package that is edited while the loader runs, next to a package in a   *)
(* directory of the same name deeper in the tree.                           *)

\* The user rewrites a package's mod.json with another content.
EditManifest(d, man) ==
    /\ Change
    /\ fs[d].exists
    /\ fs[d].manifest \notin {"none", man}
    /\ fs' = [fs EXCEPT ![d] = [@ EXCEPT !.manifest = man, !.tman = clock']]
    /\ NoEvent
    /\ UNCHANGED <<tree, loaderVars, phase, fg, bg, histVars>>

\* mods/a is a package with id foo and a main file, written before the
\* clock starts; mods/c holds no manifest and may hold the package c/a with
\* id bar.  The clock starts one change earlier than in Init.
TwinInit ==
    /\ fs = [d \in DirNames |-> IF d = "a" THEN NewDir("foo", "file", 0)
                                 ELSE NoDir]
    /\ tree \in {PlainTree, [PlainTree EXCEPT !.box = "twin"]}
    /\ clock = 0
    /\ LoaderInit
    /\ LoaderOnly

\* The user edits, empties, deletes and re-creates mods/a, and may create
\* mods/b with the id mods/a has; no meshes directory is migrated.
TwinNext ==
    \/ \E man \in {"bar", "bad"} : EditManifest("a", man)
    \/ \E d \in DirNames : CreatePkg(d, "foo", "file")
    \/ TouchFile("a", "main.py")
    \/ RemoveMain("a")
    \/ RemovePkg("a")
    \/ OnAppRunning
    \/ ThreadScan
    \/ ThreadScanFinish
    \/ PostScanLoad
    \/ \E importRaises \in BOOLEAN : ReadModEntry("none", importRaises)
    \/ ReadAborted
    \/ ReadFinished

TwinSpec == TwinInit /\ [][TwinNext]_vars

-----------------------------------------------------------------------------
(* ModLoaderSubsystem.migrate_files *)

\* The source directory of a migration (a package's audio directory) and the
\* names it may hold: two files, a subdirectory with no extension, and a
\* subdirectory whose name ends in an extension.
MigSource == <<"a", "audio">>
MigChildren == {"a.ogg", "b.txt", "sub", "dir.ogg"}
\* The names a package's textures directory may hold: three files and a
\* subdirectory whose name ends in an extension.
TexChildren == {"a.dds", "b.png", "c.ktx", "d.dds"}
MigIsDir(n) == n \in {"sub", "dir.ogg", "d.dds"}

\* bs.app.classic.platform; "none" stands for bs.app.classic being None.
Platforms == {"windows", "linux", "mac", "android", "ios", "unknown", "none"}

\* The allow-lists a caller passes; None becomes the empty list.
AllowLists == {{}, {".ogg"}, {".ogg", ".txt"}}

\* The orders in which os.listdir may return the names of a directory.
Listings(names) ==
    {l \in [1..Cardinality(names) -> names] :
        \A i, j \in DOMAIN l : l[i] = l[j] => i = j}

\* The loop over the listing: shutil.copy of every name whose suffix is in the
\* allow-list.  shutil.copy opens its source as a file, which raises for a
\* directory and ends the loop with the earlier copies made.
RECURSIVE CopyListed(_, _, _)
CopyListed(listing, allowed, m) ==
    IF listing = <<>> THEN m
    ELSE LET n == Head(listing)
         IN  IF Suffix(MigSource \o <<n>>) \in allowed
               THEN IF MigIsDir(n)
                      THEN [m EXCEPT !.raised = "IsADirectoryError"]
                      ELSE CopyListed(Tail(listing), allowed,
                                      [m EXCEPT !.dest = @ \cup {n}])
               ELSE CopyListed(Tail(listing), allowed, m)

\* migrate_files(source, destination, hashname, allowed_filetypes), with the
\* listing os.listdir returns.  dest is the set of names in
\* destination/hashname, made whether that directory exists.
MigrateFiles(m, listing) ==
    IF m.source = "none" THEN m
    ELSE LET made == [m EXCEPT !.made = TRUE]
         IN  IF m.source = "file"
               THEN [made EXCEPT !.raised = "NotADirectoryError"]
               ELSE CopyListed(listing, m.allowed, made)

\* A choice that falls back to the desktop extension.
ImgExt_DesktopDefault(platform) ==
    IF platform \in {"android", "ios"} THEN {".ktx"} ELSE {".dds"}

\* img_ext of _load_as_directory: both extensions unless the platform is
\* one of those matched.
ImgExt(platform) ==
    IF platform \in {"windows", "linux", "mac"} THEN {".dds"}
    ELSE IF platform \in {"android", "ios"} THEN {".ktx"}
    ELSE {".dds", ".ktx"}

\* The textures part of _load_as_directory: nothing on a server and nothing
\* when the manifest's textures directory does not exist, else migrate_files
\* with the extensions of the platform.
MigrateTextures ==
    /\ mig.pc = "ready"
    /\ mig.role = "textures"
    /\ IF mig.server \/ mig.source = "none"
       THEN mig' = [mig EXCEPT !.pc = "done"]
       ELSE \E listing \in Listings(mig.children) :
               mig' = [MigrateFiles([mig EXCEPT !.allowed = ImgExt(mig.platform)],
                                    listing) EXCEPT !.pc = "done"]
    /\ UNCHANGED <<fsVars, loaderVars, phase, fg, bg, last, ended, obs,
                   notified, api, produced, walk, host>>

\* The audio part of _load_as_directory: nothing on a server and nothing
\* when the manifest's audio directory does not exist, else migrate_files
\* with the one audio extension.
MigrateAudio ==
    /\ mig.pc = "ready"
    /\ mig.role = "audio"
    /\ IF mig.server \/ mig.source = "none"
       THEN mig' = [mig EXCEPT !.pc = "done"]
       ELSE \E listing \in Listings(mig.children) :
               mig' = [MigrateFiles([mig EXCEPT !.allowed = {".ogg"}], listing)
                         EXCEPT !.pc = "done"]
    /\ UNCHANGED <<fsVars, loaderVars, phase, fg, bg, last, ended, obs,
                   notified, api, produced, walk, host>>

CallMigrateFiles ==
    /\ mig.pc = "ready"
    /\ mig.role = "direct"
    /\ \E listing \in Listings(mig.children) :
          mig' = [MigrateFiles(mig, listing) EXCEPT !.pc = "done"]
    /\ UNCHANGED <<fsVars, loaderVars, phase, fg, bg, last, ended, obs,
                   notified, api, produced, walk, host>>

\* A call about to be made: the source is missing, a directory holding up to
\* MaxListed of the names, or a file; the destination directory may be left
\* from an earlier load.
DirectCall ==
    \E source \in {"none", "dir", "file"}, allowed \in AllowLists,
       made \in BOOLEAN, children \in SUBSET MigChildren :
       /\ Cardinality(children) <= MaxListed
       /\ source # "dir" => children = {}
       /\ mig = [pc |-> "ready", role |-> "direct", server |-> FALSE,
                 platform |-> "none", source |-> source,
                 children |-> children, allowed |-> allowed, made |-> made,
                 dest |-> {}, raised |-> "none"]

\* A load about to migrate the textures of a package, on a server or a
\* client of any platform.
TexturesCall ==
    \E source \in {"none", "dir"}, server \in BOOLEAN, platform \in Platforms,
       made \in BOOLEAN, children \in SUBSET TexChildren :
       /\ Cardinality(children) <= MaxListed
       /\ source # "dir" => children = {}
       /\ mig = [pc |-> "ready", role |-> "textures", server |-> server,
                 platform |-> platform, source |-> source,
                 children |-> children, allowed |-> {}, made |-> made,
                 dest |-> {}, raised |-> "none"]

\* A load about to migrate the audio files of a package, on a server or a
\* client.
AudioCall ==
    \E source \in {"none", "dir"}, server \in BOOLEAN, made \in BOOLEAN,
       children \in SUBSET MigChildren :
       /\ Cardinality(children) <= MaxListed
       /\ source # "dir" => children = {}
       /\ mig = [pc |-> "ready", role |-> "audio", server |-> server,
                 platform |-> "none", source |-> source,
                 children |-> children, allowed |-> {}, made |-> made,
                 dest |-> {}, raised |-> "none"]

MigInit ==
    /\ fs = [d \in DirNames |-> NoDir]
    /\ tree = PlainTree
    /\ clock = 1
    /\ LoaderInit
    /\ walk = NoWalk
    /\ host = NoHost
    /\ (DirectCall \/ TexturesCall \/ AudioCall)

MigNext == CallMigrateFiles \/ MigrateTextures \/ MigrateAudio

MigSpec == MigInit /\ [][MigNext]_vars

-----------------------------------------------------------------------------
(* Claims *)

\* The change state a load call saw is the one the previous load call of the
\* same entry saw.
SameAsPreviousLoad ==
    /\ last.obsBefore.seen
    /\ last.obsBefore.present = last.present
    /\ last.obsBefore.time = last.changeTime

\* C1: a load call that finds the files under the entry's root with the same
\* modification times as the previous load call of that entry runs no load
\* logic: no asset migration, no import or reload, no notification, and the
\* entry's status and recorded timestamp stay as they were.
C1_UnchangedIsNoOp ==
    (last.stage # "none" /\ SameAsPreviousLoad) =>
        /\ last.stage \in {"gone", "immutable", "unchanged"}
        /\ last.res = "false"
        /\ ~last.migrated
        /\ last.imp = "none"
        /\ ~last.announced
        /\ last.statusAfter = last.statusBefore
        /\ last.timeAfter = last.timeBefore

C1_Witness ==
    /\ last.stage = "unchanged"
    /\ SameAsPreviousLoad
    /\ last.typeBefore = "DIRECTORY"
    /\ last.statusBefore = "ACTIVE"
    /\ last.mainFile

\* C2: a load call on a Directory entry whose root holds a file modified
\* strictly after the entry's recorded timestamp runs the load logic once and
\* records the new time, and the recorded timestamp of every entry is the
\* change time its last load call saw, so that later passes without a further
\* change run nothing.
C2_ReloadOnChange ==
    /\ (last.stage # "none" /\ last.typeBefore = "DIRECTORY" /\ last.present
            /\ last.changeTime > last.timeBefore) =>
          (last.stage = "dispatched" /\ last.timeAfter = last.changeTime)
    /\ \A id \in DOMAIN mod_entries :
          (obs[id].seen /\ obs[id].present) =>
              mod_entries[id].last_time = obs[id].time

C2_Witness ==
    /\ last.stage = "dispatched"
    /\ last.typeBefore = "DIRECTORY"
    /\ last.statusBefore = "ACTIVE"
    /\ last.timeBefore # NoTime
    /\ last.changeTime > last.timeBefore
    /\ last.imp = "reload"

\* The registered Directory package rooted at mods/<d> has been loaded
\* before and now holds a file modified after its recorded timestamp.
ModifiedSinceLoad(d) ==
    /\ phase = "running"
    /\ \E id \in DOMAIN mod_entries :
          /\ mod_entries[id].type = "DIRECTORY"
          /\ mod_entries[id].path = <<d>>
          /\ obs[id].seen
          /\ Exists(<<d>>)
          /\ NewestMTime(mod_entries[id]) > mod_entries[id].last_time

\* The loader has nothing left to do until the user changes a file again:
\* no apply pass is running or requested, the scan thread is between two
\* scans, and a scan finds the path list and the registry as they are.
Quiescent ==
    /\ phase = "running"
    /\ fg.pc = "idle"
    /\ bg = "sleep"
    /\ ~scan_finished
    /\ GlobalScan.sp = last_scan_paths
    /\ scan_paths = last_scan_paths
    /\ GlobalScan.ents = mod_entries

\* C3: under fair scheduling of the scan thread and the load timer, a
\* registered Directory package with a file modified while the host runs is
\* eventually reloaded by an apply pass.  Stated in the form a finite run
\* refutes: the loader never comes to rest (every scan and timer tick from
\* here on leaves the state as it is) while such a package still waits for
\* its reload.
C3_ModifiedIsReloaded ==
    \A d \in DirNames : ~(ModifiedSinceLoad(d) /\ Quiescent)

\* on_app_running has scanned and run its apply pass to the end, and no file
\* has changed since the loader was constructed.
FirstPassDone == ended.outcome = "done" /\ ended.first /\ clock = 1

\* mods/<d> holds a parseable manifest and main.py is a regular file, and no
\* other directory claims the same id.
Loadable(d) ==
    /\ fs[d].exists
    /\ fs[d].manifest \in ManifestIds
    /\ fs[d].main = "file"
    /\ \A o \in DirNames \ {d} : fs[o].manifest # fs[d].manifest

LoadFailed ==
    /\ last.stage = "dispatched"
    /\ last.typeBefore = "DIRECTORY"
    /\ (last.res = "raise" \/ last.fail # "none")

\* C5: when a package's load fails during an apply pass (code entry missing
\* or not an entry file, asset migration I/O error, exception from the
\* import), the entry's status after the load equals its status before; a
\* NEW entry is not promoted to ACTIVE.
C5_FailedLoadKeepsStatus ==
    LoadFailed => last.statusAfter = last.statusBefore

\* C6 as stated: no load call raises to its caller.
C6_LoadNeverRaises ==
    last.res # "raise"

\* C6 as amended: a load call raises only from the per-kind dispatch, when the
\* asset migration or the import raised; the loop of the apply pass catches
\* it, sets the pass's exit status to ERROR and goes on to the next entry, so
\* nothing raised by a load leaves the apply pass.
C6_RaiseCaughtByPass ==
    /\ last.res = "raise" =>
          /\ last.stage = "dispatched"
          /\ last.fail \in {"io", "import"}
          /\ fg.pc = "applying"
          /\ fg.exit = "ERROR"
          /\ fg.raised
    /\ (last.stage # "none" /\ last.stage # "dispatched") => last.res = "false"
    /\ (fg.pc = "applying" /\ fg.raised) => fg.exit = "ERROR"
    /\ (ended.outcome = "done" /\ ended.raised) =>
          /\ ended.exit = "ERROR"
          /\ ended.it = ended.size + 1
          /\ ended.loaded => ended.cue = <<"error">>

C6_Witness ==
    /\ ended.outcome = "done"
    /\ ended.raised
    /\ ended.size = 2
    /\ ended.cue = <<"error">>

\* C7: an apply pass calls load exactly once on every entry of the registry:
\* whenever a pass is over, each entry the registry held has been loaded in it.
C7_PassLoadsEveryEntry ==
    ended.outcome # "none" =>
        /\ ended.outcome = "done"
        /\ ended.it = ended.size + 1
        /\ ended.size = Cardinality(DOMAIN mod_entries)

\* C8: an apply pass emits at most one cue; it emits one iff an entry was
\* activated for the first time in the pass, and the cue is the error cue iff
\* a load of the pass failed (a missing or invalid code entry included).
C8_OneCueErrorIfAnyFailed ==
    ended.outcome = "done" =>
        /\ Len(ended.cue) <= 1
        /\ ended.cue # <<>> <=> ended.loaded
        /\ ended.cue # <<>> => (ended.cue = <<"error">> <=> ended.failed)

\* C9: the change time is recorded before the per-kind dispatch even when the
\* load then fails; an entry whose last load failed is not attempted again,
\* and raises nothing, while no file changed, and is attempted again once its
\* change time differs.
C9_FailedLoadRetriedOnChangeOnly ==
    /\ last.stage = "dispatched" => last.timeAfter = last.changeTime
    /\ LoadFailed => last.timeAfter = last.changeTime
    /\ (last.stage # "none" /\ last.obsBefore.failed /\ SameAsPreviousLoad) =>
          /\ last.stage \in {"gone", "unchanged"}
          /\ last.res = "false"
          /\ last.imp = "none"
          /\ ~last.migrated
    /\ (last.stage # "none" /\ last.obsBefore.failed /\ last.present
            /\ last.changeTime # last.obsBefore.time) =>
          last.stage = "dispatched"

C9_Witness ==
    /\ last.stage = "unchanged"
    /\ last.obsBefore.failed
    /\ SameAsPreviousLoad
    /\ last.typeBefore = "DIRECTORY"

\* C10: each id of the registry has one entry with one root path; a scan that
\* finds a package whose id is registered under another root path rejects it
\* and leaves the existing entry (path, kind, manifest, status, timestamp) as
\* it was: no step removes an id, only a load call changes an entry, and a
\* load call changes neither path, kind nor manifest.
C10_ExistingEntryKept ==
    [][\A id \in DOMAIN mod_entries :
          /\ id \in DOMAIN mod_entries'
          /\ mod_entries'[id].path = mod_entries[id].path
          /\ mod_entries'[id].type = mod_entries[id].type
          /\ mod_entries'[id].manifest = mod_entries[id].manifest
          /\ (last' = NoLoad \/ last'.id # id) =>
                mod_entries'[id] = mod_entries[id]]_vars

\* Both directories hold a package with the same id, both have been scanned,
\* and the id is registered under the first one found.
C10_Witness ==
    /\ fs["a"].exists /\ fs["b"].exists
    /\ fs["a"].manifest = "foo" /\ fs["b"].manifest = "foo"
    /\ <<"a">> \in Range(last_scan_paths)
    /\ <<"b">> \in Range(last_scan_paths)
    /\ "foo" \in DOMAIN mod_entries
    /\ mod_entries["foo"].path = <<"a">>
    /\ Len(order) = 1

\* C12: the scan thread never modifies the registry while an apply pass is
\* iterating over it: during a pass no step inserts an entry.
C12_NoInsertDuringPass ==
    [][fg.pc = "applying" => DOMAIN mod_entries' = DOMAIN mod_entries]_vars

\* C17: no entry is ever removed from the registry; a load call on an entry
\* whose root path has disappeared returns False and leaves the entry as it
\* was.
C17_NeverRemoved ==
    [][/\ DOMAIN mod_entries \subseteq DOMAIN mod_entries'
       /\ (last'.stage # "none" /\ ~last'.present) =>
             /\ last'.stage = "gone"
             /\ last'.res = "false"
             /\ last'.imp = "none"
             /\ ~last'.migrated
             /\ ~last'.announced
             /\ mod_entries'[last'.id] = mod_entries[last'.id]]_vars

\* A load call was just made on a registered entry whose root is gone.
C17_Witness ==
    /\ last.stage = "gone"
    /\ last.id \in DOMAIN mod_entries
    /\ ~Exists(mod_entries[last.id].path)
    /\ last.statusBefore = "ACTIVE"

\* The step is a call of scan_for_mods() with no path.
GlobalScanStep == OnAppRunning \/ ThreadScan \/ OnAppUnsuspend

\* mods/<d> holds a manifest file that cannot be parsed.
Unparsable(d) == fs[d].exists /\ fs[d].manifest = "bad"

\* C15: a directory whose manifest file cannot be parsed is never registered
\* as a Directory package; a scan that examines it (it is not among the
\* paths the previous scan kept) treats it as a directory without a manifest:
\* it scans its children, does not keep the directory in the scanned paths,
\* and goes on to register the packages among the remaining paths it
\* examines.
C15_UnparsableManifestIsNoManifest ==
    [][GlobalScanStep =>
          \A d \in DirNames :
              Unparsable(d) =>
                  /\ \A id \in DOMAIN mod_entries' \ DOMAIN mod_entries :
                        mod_entries'[id].path # <<d>>
                  /\ <<d>> \notin Range(last_scan_paths) =>
                        /\ <<d>> \notin Range(scan_paths')
                        /\ <<d, "mod.json">> \in Range(scan_paths')
                        /\ \A o \in DirNames \ {d} :
                              (/\ fs[o].exists
                               /\ fs[o].manifest \in ManifestIds
                               /\ <<o>> \notin Range(last_scan_paths)) =>
                                  /\ <<o>> \in Range(scan_paths')
                                  /\ fs[o].manifest \in DOMAIN mod_entries']_vars

\* A scan has met the unparsable manifest of mods/a and registered the
\* package of mods/b after it.
C15_Witness ==
    /\ Unparsable("a")
    /\ <<"a", "mod.json">> \in Range(scan_paths)
    /\ fs["b"].exists
    /\ fs["b"].manifest \in DOMAIN mod_entries
    /\ mod_entries[fs["b"].manifest].path = <<"b">>

\* C11: a global scan that runs to its end sets the rescan flag if and only
\* if the path list it built differs from the path list the previous global
\* scan built; a scan of one directory neither sets nor clears the flag.
C11_FlagIffPathListDiffers ==
    [][/\ (api'.op = "scan" /\ api'.res = "ok" /\ bg' # "blocked") =>
             scan_finished' = (scan_finished \/ produced' # produced)
       /\ api'.op = "scoped" => scan_finished' = scan_finished]_vars

\* C13: the scan thread's loop never ends: whatever the file system looks
\* like during a poll, the poll leaves the thread alive to scan again.
C13_PollNeverEndsThread ==
    [][(phase = "running" /\ bg = "sleep") => bg' # "dead"]_vars

\* The step is a call of add_dir_to_scan or add_scan_path.
RegistersRoot == api'.op \in {"add_dir_to_scan", "add_scan_path"}

\* C14: registering a further directory to scan whose path does not exist or
\* is no directory raises FileNotFoundError or NotADirectoryError and leaves
\* dirs_to_scan as it was; registering a directory appends it, it is never
\* taken out again, and every later global scan that runs to its end walks
\* it.
C14_RootRegistration ==
    [][/\ (RegistersRoot /\ api'.arg \notin Range(dirs_to_scan)) =>
             /\ tree.ext = "none" => api'.res = "FileNotFoundError"
             /\ tree.ext = "file" => api'.res = "NotADirectoryError"
             /\ tree.ext = "dir" => api'.res = "ok"
       /\ (RegistersRoot /\ api'.res # "ok") => dirs_to_scan' = dirs_to_scan
       /\ (RegistersRoot /\ api'.res = "ok") =>
             api'.arg \in Range(dirs_to_scan')
       /\ Len(dirs_to_scan') >= Len(dirs_to_scan)
       /\ SubSeq(dirs_to_scan', 1, Len(dirs_to_scan)) = dirs_to_scan
       /\ (api'.op = "scan" /\ api'.res = "ok"
               /\ ExtRoot \in Range(dirs_to_scan)) =>
             ExtRoot \o <<ExtScriptName>> \in Range(scan_paths')]_vars

\* The directory outside the mods directory has been registered and a
\* global scan has since found the script in it.
C14_Witness ==
    /\ ExtRoot \in Range(dirs_to_scan)
    /\ api.op = "scan"
    /\ api.res = "ok"
    /\ ExtScriptName \in DOMAIN mod_entries
    /\ mod_entries[ExtScriptName].path = ExtRoot \o <<ExtScriptName>>

\* C16: every entry of the registry that was created from a manifest has a
\* non-empty id, whatever manifest document the scan accepted.
C16_ManifestIdNonEmpty ==
    \A id \in DOMAIN mod_entries :
        mod_entries[id].manifest # NoManifest => id # ""

\* C18: a directory without a manifest that holds a subdirectory is scanned
\* by the nested scan on every global scan that runs to its end, and is
\* never registered as a package nor kept among the scanned paths.
C18_ManifestlessDirRecursed ==
    [][/\ (api'.op = "scan" /\ api'.res = "ok" /\ tree.box = "pkg") =>
             /\ <<BoxName, BoxPkgName>> \in Range(scan_paths')
             /\ "bar" \in DOMAIN mod_entries'
             /\ mod_entries'["bar"].path = <<BoxName, BoxPkgName>>
       /\ <<BoxName>> \notin Range(scan_paths')
       /\ <<BoxName>> \notin Range(last_scan_paths')
       /\ \A id \in DOMAIN mod_entries' :
             mod_entries'[id].path # <<BoxName>>]_vars

\* A global scan after the one of on_app_running has run over the directory
\* without a manifest and its subdirectory.
C18_Witness ==
    /\ tree.box = "pkg"
    /\ phase = "running"
    /\ api.op = "scan"
    /\ api.res = "ok"
    /\ <<BoxName, BoxPkgName>> \in Range(scan_paths)
    /\ "bar" \in DOMAIN mod_entries

\* C19: a script file directly under a scanned directory is registered by
\* the scan as a PLUGIN entry whose id is the file's name and which has no
\* manifest; every PLUGIN entry of the registry is of that form.
C19_StrayScriptIsPlugin ==
    [][/\ (api'.op = "scan" /\ api'.res = "ok" /\ tree.script) =>
             /\ ScriptName \in DOMAIN mod_entries'
             /\ mod_entries'[ScriptName].path = <<ScriptName>>
             /\ mod_entries'[ScriptName].type = "PLUGIN"
       /\ \A id \in DOMAIN mod_entries' :
             mod_entries'[id].type = "PLUGIN" =>
                 /\ id = PathName(mod_entries'[id].path)
                 /\ mod_entries'[id].id = id
                 /\ mod_entries'[id].manifest = NoManifest]_vars

\* The stray script of the mods directory has been registered by a scan.
C19_Witness ==
    /\ tree.script
    /\ ScriptName \in DOMAIN mod_entries
    /\ mod_entries[ScriptName].type = "PLUGIN"
    /\ mod_entries[ScriptName].manifest = NoManifest
    /\ <<ScriptName>> \in Range(last_scan_paths)

\* C20: a call of migrate_files whose source does not exist raises nothing and
\* changes nothing; a call whose source is a directory leaves in the
\* destination directory exactly the source's direct children whose extension
\* is in the allow-list, subdirectories' contents not among them.
C20_MigrateCopiesAllowedChildren ==
    [][(mig.pc = "ready" /\ mig.role = "direct" /\ mig'.pc = "done") =>
          /\ mig.source = "none" =>
                mig' = [mig EXCEPT !.pc = "done"]
          /\ mig.source = "dir" =>
                /\ mig'.raised = "none"
                /\ mig'.made
                /\ mig'.dest =
                      {n \in mig.children :
                          Suffix(MigSource \o <<n>>) \in mig.allowed}]_vars

\* C29: no two registered DIRECTORY entries with different ids and paths have
\* the same module name, so that a load of one never reloads or replaces the
\* sys.modules entry of the other.
C29_PackagesHaveOwnModules ==
    \A i, j \in DOMAIN mod_entries :
        (/\ i # j
         /\ mod_entries[i].type = "DIRECTORY"
         /\ mod_entries[j].type = "DIRECTORY"
         /\ mod_entries[i].path # mod_entries[j].path) =>
            ModuleImport(mod_entries[i]) # ModuleImport(mod_entries[j])

\* C25: a load of a DIRECTORY entry that runs the package's code reloads
\* exactly when an earlier load of that entry ran it successfully, and
\* imports otherwise; the main file's directory is appended to sys.path only
\* by a load that found the entry NEW, and no entry becomes NEW again.
C25_ImportFirstThenReload ==
    [][/\ (last'.typeBefore = "DIRECTORY" /\ last'.imp # "none") =>
              ((last'.imp = "reload") = last'.obsBefore.ran)
       /\ last'.appended => last'.statusBefore = "NEW"
       /\ \A id \in DOMAIN mod_entries :
              mod_entries[id].status # "NEW" =>
                  mod_entries'[id].status # "NEW"]_vars

\* C27: the _last_time of a registered entry never decreases.
C27_LastTimeMonotonic ==
    [][\A id \in DOMAIN mod_entries :
          mod_entries'[id].last_time >= mod_entries[id].last_time]_vars

\* C30: a registered entry stays registered with the id, path, type and
\* manifest it was registered with, whatever is scanned, loaded, edited,
\* deleted or re-created afterwards.
C30_RegisteredFieldsFrozen ==
    [][\A id \in DOMAIN mod_entries :
          /\ id \in DOMAIN mod_entries'
          /\ mod_entries'[id].id = mod_entries[id].id
          /\ mod_entries'[id].path = mod_entries[id].path
          /\ mod_entries'[id].type = mod_entries[id].type
          /\ mod_entries'[id].manifest = mod_entries[id].manifest]_vars

\* A completed scan has just walked the mods directory in which the
\* registered package's manifest file now holds another id, or in which its
\* directory was deleted and written again.
C30_Witness ==
    /\ api.op = "scan"
    /\ api.res = "ok"
    /\ "foo" \in DOMAIN mod_entries
    /\ mod_entries["foo"].path = <<"a">>
    /\ fs["a"].exists
    /\ fs["a"].manifest = "bar"
    /\ mod_entries["foo"].manifest = [id |-> "foo"]

\* C24: a scan of one directory made after a global scan has completed
\* registers every directory with a manifest and every script directly under
\* that directory which the global scan did not walk.
C24_ScopedScanRegistersUnseen ==
    [][(api'.op = "scoped" /\ api'.res = "ok" /\ produced # <<>>) =>
          \A q \in Range(GetValidScanList(api'.arg)) :
              (/\ q \notin Range(produced)
               /\ \/ IsDir(q) /\ LookForDirManifest(q) # NoManifest
                  \/ IsFile(q) /\ Suffix(q) = ".py") =>
                  \E id \in DOMAIN mod_entries' : mod_entries'[id].path = q]_vars

\* C26: the first load of a PLUGIN entry whose file exists leaves it ACTIVE,
\* and a PLUGIN entry that is ACTIVE gets no further than the check of its
\* status in any later load.
C26_SingleFileLoadedOnce ==
    [][(last'.typeBefore = "PLUGIN" /\ last'.present) =>
          /\ last'.statusBefore = "NEW" /\ ~last'.obsBefore.seen =>
                 last'.statusAfter = "ACTIVE"
          /\ last'.statusBefore = "ACTIVE" => last'.stage = "immutable"]_vars

\* The main context has just started an apply pass under the lock.
LockedPassStarts == fg'.pc = "applying" /\ fg'.locked /\ fg'.it = 1 /\ fg.pc = "idle"

TexturesMigrated ==
    mig.pc = "ready" /\ mig.role = "textures" /\ mig.source = "dir" /\ mig'.pc = "done"

\* The audio part of a load has just run for an existing audio directory.
AudioMigrated ==
    mig.pc = "ready" /\ mig.role = "audio" /\ mig.source = "dir" /\ mig'.pc = "done"

LeafPaths ==
    ScanPaths(PathsToScan(dirs_to_scan),
              [sp |-> <<>>, ents |-> mod_entries, ord |-> order], <<>>, FALSE).sp

\* C23: no scan raises, and when the scan of the main context and the scan
\* of the thread are both over, _last_scan_paths holds each existing leaf
\* path exactly once.
C23_ConcurrentScansKeepPathList ==
    /\ \A t \in Contexts : walk[t].pc # "raised"
    /\ (phase = "running" /\ \A t \in Contexts : walk[t].pc = "idle") =>
          /\ Range(last_scan_paths) = Range(LeafPaths)
          /\ Len(last_scan_paths) = Len(LeafPaths)

\* C28: the process never holds more than one registered loader and never
\* more than one running scan thread, and once the app runs it holds exactly
\* one of each.
C28_OneLoaderOneThread ==
    /\ Len(host.loaders) <= 1
    /\ Cardinality({i \in DOMAIN host.loaders : host.loaders[i].thread}) <= 1
    /\ (\E i \in DOMAIN host.loaders : host.loaders[i].started) =>
          Len(host.loaders) = 1

=============================================================================
